---- MODULE Spec2Model ----
(***************************************************************************)
(* Model of cydarm/bpmn-to-cacao: cacao.ConvertToCacao and the two         *)
(* lowering functions it calls, ProcessTask and ProcessGateway             *)
(* (src/cacao/cacao.go), over the parsed document types of package bpmn    *)
(* (src/unnamed/part_001).                                                 *)
(*                                                                         *)
(* Go strings are sequences of one-character strings, so that upper/lower  *)
(* casing, prefix tests and the "id:discriminator" key encoding are        *)
(* computed the way the code computes them.  The empty Go string is <<>>.  *)
(* A Go map is a function; a missing key reads as the zero value.          *)
(* A Go pointer that may be nil is a sequence of length 0 or 1.            *)
(***************************************************************************)
EXTENDS Naturals, Sequences, FiniteSets

(***************************************************************************)
(* Bounds of the explored inputs.                                          *)
(***************************************************************************)
\* longest Outgoing list of the gateway of a document
MaxOutgoing == 3
\* most intermediate-catch-events of a document
MaxCatch == 2
\* most processes of a document
MaxProcesses == 2

(***************************************************************************)
(* Program constants (src/cacao/cacao.go:34-60).                           *)
(***************************************************************************)
CACAO_SPEC_VERSION_11 == "1.1"
CACAO_SPEC_VERSION_20 == "2.0"
CACAO_STEP_TYPE_START == "start"
CACAO_STEP_TYPE_END == "end"
CACAO_STEP_TYPE_11_STEP == "step"
CACAO_STEP_TYPE_ACTION == "action"
CACAO_STEP_TYPE_11_SINGLE == "single"
CACAO_STEP_TYPE_PARALLEL == "parallel"
CACAO_STEP_TYPE_IF_COND == "if-condition"
CACAO_STEP_TYPE_SWITCH_COND == "switch-condition"
CACAO_COMMAND_TYPE_MANUAL == "manual"
CACAO_COMMAND_TYPE_BASH == "bash"
CACAO_COMMAND_TYPE_HTTP == "http-api"

\* the two values of main's --cacao-spec flag
SpecVersions == {CACAO_SPEC_VERSION_11, CACAO_SPEC_VERSION_20}

(***************************************************************************)
(* Strings.                                                                *)
(***************************************************************************)
LowerLetters ==
  <<"a","b","c","d","e","f","g","h","i","j","k","l","m",
    "n","o","p","q","r","s","t","u","v","w","x","y","z">>
UpperLetters ==
  <<"A","B","C","D","E","F","G","H","I","J","K","L","M",
    "N","O","P","Q","R","S","T","U","V","W","X","Y","Z">>
DecimalDigits == <<"0","1","2","3","4","5","6","7","8","9">>

Range(s) == {s[i] : i \in DOMAIN s}

\* unicode.IsLetter, unicode.IsNumber on the model's alphabet
IsLetter(r) == r \in Range(LowerLetters) \cup Range(UpperLetters)
IsNumber(r) == r \in Range(DecimalDigits)

ToUpperRune(r) ==
  IF r \in Range(LowerLetters)
    THEN UpperLetters[CHOOSE i \in DOMAIN LowerLetters : LowerLetters[i] = r]
    ELSE r
ToLowerRune(r) ==
  IF r \in Range(UpperLetters)
    THEN LowerLetters[CHOOSE i \in DOMAIN UpperLetters : UpperLetters[i] = r]
    ELSE r

\* strings.ToUpper, strings.ToLower
ToUpper(s) == [i \in 1..Len(s) |-> ToUpperRune(s[i])]
ToLower(s) == [i \in 1..Len(s) |-> ToLowerRune(s[i])]

\* strings.ReplaceAll(s, " ", "_")
ReplaceSpaces(s) == [i \in 1..Len(s) |-> IF s[i] = " " THEN "_" ELSE s[i]]

\* strings.Map dropping every rune that is not a letter, a number or '_'
KeepIdentRune(r) == IsLetter(r) \/ IsNumber(r) \/ r = "_"
StripNonIdent(s) == SelectSeq(s, KeepIdentRune)

\* strings.HasPrefix, strings.TrimPrefix
HasPrefix(s, prefix) ==
  Len(prefix) <= Len(s) /\ SubSeq(s, 1, Len(prefix)) = prefix
TrimPrefix(s, prefix) ==
  IF HasPrefix(s, prefix) THEN SubSeq(s, Len(prefix) + 1, Len(s)) ELSE s

\* the %d verb of fmt.Sprintf for i >= 0
RECURSIVE Itoa(_)
Itoa(i) ==
  IF i < 10 THEN <<DecimalDigits[i + 1]>>
  ELSE Itoa(i \div 10) \o <<DecimalDigits[(i % 10) + 1]>>

(***************************************************************************)
(* Maps.                                                                   *)
(***************************************************************************)
EmptyMap == [k \in {} |-> <<>>]
\* m[k] of a map[string]string: "" when k is absent
Get(m, k) == IF k \in DOMAIN m THEN m[k] ELSE <<>>
\* m[k] = v
Put(m, k, v) == [x \in (DOMAIN m) \cup {k} |-> IF x = k THEN v ELSE m[x]]

(***************************************************************************)
(* Identifiers.                                                            *)
(***************************************************************************)
\* uuid.NewHash(sha256, namespace, id, 5): a name-based uuid, the same for
\* the same id and different for different ids
NewHash(id) == <<"v5", "-">> \o id
\* the n-th value drawn from the random source by uuid.New(): a version-4
\* uuid, never equal to a name-based one nor to another draw
NewRandom(n) == <<"v4", "-">> \o Itoa(n)
\* fmt.Sprintf("%s--%s", stepType, uuid)
StepId(stepType, u) == <<stepType, "--">> \o u
\* fmt.Sprintf("%s:%s", id, discriminator) and fmt.Sprintf("%s:%d", id, i)
FlowKey(id, discriminator) == id \o <<":">> \o discriminator
FlowKeyN(id, i) == id \o <<":">> \o Itoa(i)

(***************************************************************************)
(* The parsed document (package bpmn).                                     *)
(***************************************************************************)
BpmnStartEvent(id) == [Id |-> id, Name |-> <<"g","o">>]
BpmnTask(id) == [Id |-> id, Name |-> id, Documentation |-> <<"d">>]
\* Outgoing holds the ids of n <outgoing> elements
BpmnGateway(id, name, n) ==
  [Id |-> id, Name |-> name, Outgoing |-> [i \in 1..n |-> <<"f">> \o Itoa(i)]]
BpmnEndEvent(id) == [Id |-> id, Name |-> <<"E","n","d">>]
BpmnSequenceFlow(sourceRef, name, targetRef) ==
  [SourceRef |-> sourceRef, TargetRef |-> targetRef, Name |-> name]

\* a process with no flow element; StartEvent is a nil pointer
EmptyProcess ==
  [Id |-> <<"P">>, Name |-> <<"p">>, StartEvent |-> <<>>,
   ServiceTask |-> <<>>, UserTask |-> <<>>, ManualTask |-> <<>>,
   ScriptTask |-> <<>>, SendTask |-> <<>>, Task |-> <<>>,
   IntermediateThrowEvent |-> <<>>, IntermediateCatchEvent |-> <<>>,
   ExclusiveGateway |-> <<>>, InclusiveGateway |-> <<>>,
   ParallelGateway |-> <<>>, EndEvent |-> <<>>, SequenceFlow |-> <<>>]

BpmnDefinitions(processes) == [Processes |-> processes]

(***************************************************************************)
(* The documents explored.  Node ids are XML ids (NCNames): distinct and   *)
(* without ':'.  G12 extends the gateway's id G1; X is the id of no node.  *)
(***************************************************************************)
S == <<"S">>
A == <<"A">>
B == <<"B">>
E == <<"E">>
X == <<"X">>
G1 == <<"G","1">>
G12 == <<"G","1","2">>
CatchId(i) == <<"C">> \o Itoa(i)

NoName == <<>>
Yes == <<"y","e","s">>
YesMixed == <<"Y","e","s">>
No == <<"n","o">>
NoUpper == <<"N","O">>
GatewayNames == {NoName, <<"I","s"," ","O","K","?">>}
GatewayKinds == {"exclusive", "parallel", "inclusive"}

\* the transitions leaving the gateway G1 (and the node G12)
GatewayFlows ==
  { <<>>,
    <<BpmnSequenceFlow(G1, Yes, A), BpmnSequenceFlow(G1, No, B)>>,
    <<BpmnSequenceFlow(G1, NoUpper, B), BpmnSequenceFlow(G1, YesMixed, A)>>,
    <<BpmnSequenceFlow(G1, NoName, A), BpmnSequenceFlow(G1, NoName, B)>>,
    <<BpmnSequenceFlow(G1, Yes, A)>>,
    <<BpmnSequenceFlow(G1, Yes, A), BpmnSequenceFlow(G1, No, X)>>,
    <<BpmnSequenceFlow(G1, <<"a">>, A), BpmnSequenceFlow(G1, <<"b">>, B),
      BpmnSequenceFlow(G1, <<"c">>, E)>>,
    <<BpmnSequenceFlow(G1, NoName, A), BpmnSequenceFlow(G1, NoName, B),
      BpmnSequenceFlow(G1, NoName, X)>>,
    <<BpmnSequenceFlow(G1, NoName, A), BpmnSequenceFlow(G1, <<"0">>, B),
      BpmnSequenceFlow(G1, NoName, E)>>,
    <<BpmnSequenceFlow(G1, <<"a">>, A), BpmnSequenceFlow(G1, <<"A">>, B),
      BpmnSequenceFlow(G1, NoName, E)>>,
    <<BpmnSequenceFlow(G1, <<"a">>, A), BpmnSequenceFlow(G12, NoName, B),
      BpmnSequenceFlow(G1, <<"b">>, B), BpmnSequenceFlow(G1, <<"c">>, E)>>,
    <<BpmnSequenceFlow(G1, <<"g","1","2",":","0">>, A),
      BpmnSequenceFlow(G12, NoName, B),
      BpmnSequenceFlow(G1, <<"b">>, B), BpmnSequenceFlow(G1, <<"c">>, E)>> }

\* the transitions leaving the task A in front of the gateway
TaskFlows ==
  { <<>>,
    <<BpmnSequenceFlow(A, NoName, G1)>>,
    <<BpmnSequenceFlow(A, <<"g","o">>, G1)>> }

WithGateway(p, kind, gateway) ==
  CASE kind = "exclusive" -> [p EXCEPT !.ExclusiveGateway = <<gateway>>]
    [] kind = "parallel" -> [p EXCEPT !.ParallelGateway = <<gateway>>]
    [] kind = "inclusive" -> [p EXCEPT !.InclusiveGateway = <<gateway>>]

\* start S -> service task A -> gateway G1 of every kind, Outgoing length and
\* label, with user task B, script task G12 and end marker E
GatewayProcesses ==
  { WithGateway(
      [EmptyProcess EXCEPT
         !.StartEvent = <<BpmnStartEvent(S)>>,
         !.ServiceTask = <<BpmnTask(A)>>,
         !.UserTask = <<BpmnTask(B)>>,
         !.ScriptTask = <<BpmnTask(G12)>>,
         !.EndEvent = <<BpmnEndEvent(E)>>,
         !.SequenceFlow = <<BpmnSequenceFlow(S, NoName, A)>> \o tf \o gf],
      kind, BpmnGateway(G1, name, n)) :
    kind \in GatewayKinds, name \in GatewayNames, n \in 0..MaxOutgoing,
    tf \in TaskFlows, gf \in GatewayFlows }

\* how a process is entered: a start marker or none, with its transition
Entries ==
  { <<<<>>, <<>>>> } \cup
  { <<<<BpmnStartEvent(S)>>, sf>> :
      sf \in { <<>>, <<BpmnSequenceFlow(S, NoName, A)>>,
               <<BpmnSequenceFlow(S, NoName, CatchId(1))>>,
               <<BpmnSequenceFlow(S, NoName, G1)>> } }
\* the intermediate-catch-events C1..Cn, the first with or without a transition
Catches ==
  { <<<<>>, <<>>>> } \cup
  { <<[i \in 1..n |-> BpmnTask(CatchId(i))], cf>> :
      n \in 1..MaxCatch,
      cf \in { <<>>, <<BpmnSequenceFlow(CatchId(1), NoName, A)>> } }
\* the transition leaving the task A
EntryTaskFlows ==
  { <<>>, <<BpmnSequenceFlow(A, NoName, CatchId(1))>>,
    <<BpmnSequenceFlow(A, NoName, X)>>, <<BpmnSequenceFlow(A, NoName, E)>> }

WithTask(p, category, task) ==
  CASE category = "sendTask" -> [p EXCEPT !.SendTask = <<task>>]
    [] category = "task" -> [p EXCEPT !.Task = <<task>>]
    [] category = "intermediateThrowEvent" ->
         [p EXCEPT !.IntermediateThrowEvent = <<task>>]

\* every entry, with manual task A, a task B of one of three categories,
\* the exclusive gateway G1 (yes -> A, no -> B) and end marker E
EntryProcesses ==
  { WithTask(
      [EmptyProcess EXCEPT
         !.StartEvent = en[1],
         !.IntermediateCatchEvent = ca[1],
         !.ManualTask = <<BpmnTask(A)>>,
         !.ExclusiveGateway = <<BpmnGateway(G1, <<"I","s"," ","O","K","?">>, 2)>>,
         !.EndEvent = <<BpmnEndEvent(E)>>,
         !.SequenceFlow = en[2] \o ca[2] \o tf \o
            <<BpmnSequenceFlow(B, NoName, E),
              BpmnSequenceFlow(G1, Yes, A), BpmnSequenceFlow(G1, No, B)>>],
      category, BpmnTask(B)) :
    en \in Entries, ca \in Catches, tf \in EntryTaskFlows,
    category \in {"sendTask", "task", "intermediateThrowEvent"} }

Processes == GatewayProcesses \cup EntryProcesses

\* documents with one process, and documents with none or several
OneProcessDocs == { BpmnDefinitions(<<p>>) : p \in Processes }
OtherDocs ==
  { BpmnDefinitions([i \in 1..n |-> [EmptyProcess EXCEPT !.Id = <<"P">> \o Itoa(i)]]) :
      n \in (0..MaxProcesses) \ {1} }
Docs == OneProcessDocs \cup OtherDocs

(***************************************************************************)
(* Documents converted side by side.  The ids of a process carry a tag, so *)
(* that two processes have the same ids (same tag) or share none.          *)
(***************************************************************************)
Tags == {<<>>, <<"Z">>}
PairShapes == {"if", "promoted", "switch"}
PairProcess(tag, shape) ==
  LET s == tag \o S
      a == tag \o A
      e == tag \o E
      g == tag \o G1
      c == tag \o CatchId(1)
      x == tag \o X
      base == [EmptyProcess EXCEPT !.Id = tag \o <<"P">>,
                                   !.ServiceTask = <<BpmnTask(a)>>,
                                   !.EndEvent = <<BpmnEndEvent(e)>>]
  IN CASE shape = "if" ->
            [base EXCEPT
               !.StartEvent = <<BpmnStartEvent(s)>>,
               !.ExclusiveGateway = <<BpmnGateway(g, <<"I","s"," ","O","K","?">>, 2)>>,
               !.SequenceFlow = <<BpmnSequenceFlow(s, NoName, a),
                                  BpmnSequenceFlow(a, NoName, g),
                                  BpmnSequenceFlow(g, Yes, a),
                                  BpmnSequenceFlow(g, No, x)>>]
       [] shape = "promoted" ->
            [base EXCEPT
               !.IntermediateCatchEvent = <<BpmnTask(c)>>,
               !.ParallelGateway = <<BpmnGateway(g, NoName, 2)>>,
               !.SequenceFlow = <<BpmnSequenceFlow(g, NoName, a),
                                  BpmnSequenceFlow(g, NoName, e)>>]
       [] shape = "switch" ->
            [base EXCEPT
               !.StartEvent = <<BpmnStartEvent(s)>>,
               !.ExclusiveGateway = <<BpmnGateway(g, NoName, 3)>>,
               !.SequenceFlow = <<BpmnSequenceFlow(s, NoName, g),
                                  BpmnSequenceFlow(g, <<"a">>, a),
                                  BpmnSequenceFlow(g, <<"b">>, e),
                                  BpmnSequenceFlow(g, NoName, x),
                                  BpmnSequenceFlow(a, NoName, e)>>]
PairDocs(tag) == { BpmnDefinitions(<<PairProcess(tag, shape)>>) : shape \in PairShapes }

(***************************************************************************)
(* The playbook (src/cacao/cacao.go:62-127).                               *)
(***************************************************************************)
\* the zero value of Step
ZeroStep ==
  [Type |-> "", Name |-> <<>>, OnCompletion |-> <<>>, Condition |-> <<>>,
   OnTrue |-> <<>>, OnFalse |-> <<>>, Switch |-> <<>>, Cases |-> EmptyMap,
   NextSteps |-> <<>>, Commands |-> <<>>, InArgs |-> <<>>]
\* Step{Type: CACAO_STEP_TYPE_END, Name: "End"}
EndStep == [ZeroStep EXCEPT !.Type = CACAO_STEP_TYPE_END, !.Name = <<"E","n","d">>]
\* the zero value of CacaoPlaybook (the timestamps are left out)
ZeroPlaybook ==
  [Type |-> "", SpecVersion |-> "", ID |-> <<>>, Name |-> <<>>,
   PlaybookVariables |-> EmptyMap, WorkflowStart |-> <<>>, Workflow |-> EmptyMap]

(***************************************************************************)
(* The step-type vocabulary of a spec version.                             *)
(***************************************************************************)
StepTypeOf(specVersion, stepType) ==
  IF specVersion = CACAO_SPEC_VERSION_11 THEN CACAO_STEP_TYPE_11_STEP ELSE stepType

(***************************************************************************)
(* ProcessTask (src/cacao/cacao.go:130-171).  draws counts the values the  *)
(* random source has delivered; the result carries the new count.          *)
(***************************************************************************)
\* stepMap[nextStepMap[fmt.Sprintf("%s:0", task.Id)]]
TaskOnCompletion(task, stepMap, nextStepMap) ==
  Get(stepMap, Get(nextStepMap, FlowKeyN(task.Id, 0)))

\* faulty variant: one End step id shared by every repair
NewEndStepId_Shared(specVersion, draws) ==
  StepId(StepTypeOf(specVersion, CACAO_STEP_TYPE_END), NewRandom(0))

\* the step id of the End step created when a successor is unresolved
NewEndStepId(specVersion, draws) ==
  StepId(StepTypeOf(specVersion, CACAO_STEP_TYPE_END), NewRandom(draws))

TaskInternalStepType(specVersion, workflowStart, stepId) ==
  IF workflowStart = stepId THEN CACAO_STEP_TYPE_START
  ELSE IF specVersion = CACAO_SPEC_VERSION_11 THEN CACAO_STEP_TYPE_11_SINGLE
  ELSE CACAO_STEP_TYPE_ACTION

\* faulty variant: the task's own uuid comes from uuid.New()
ProcessTask_RandomStepId(task, commandType, specVersion, stepMap, nextStepMap, cacaoPlaybook, draws) ==
  LET stepId == StepId(StepTypeOf(specVersion, CACAO_STEP_TYPE_ACTION), NewRandom(draws))
      found == TaskOnCompletion(task, stepMap, nextStepMap)
      endId == NewEndStepId(specVersion, draws + 1)
      workflow1 == IF found = <<>> THEN Put(cacaoPlaybook.Workflow, endId, EndStep)
                   ELSE cacaoPlaybook.Workflow
      step == [ZeroStep EXCEPT
                 !.Type = TaskInternalStepType(specVersion, cacaoPlaybook.WorkflowStart, stepId),
                 !.Name = task.Name,
                 !.OnCompletion = IF found = <<>> THEN endId ELSE found,
                 !.Commands = <<[Type |-> commandType, Command |-> task.Name,
                                 Description |-> task.Documentation]>>]
  IN [playbook |-> [cacaoPlaybook EXCEPT !.Workflow = Put(workflow1, stepId, step)],
      draws |-> IF found = <<>> THEN draws + 2 ELSE draws + 1]

\* faulty variant: the synthesized End step is linked but not inserted
ProcessTask_EndNotInserted(task, commandType, specVersion, stepMap, nextStepMap, cacaoPlaybook, draws) ==
  LET stepId == StepId(StepTypeOf(specVersion, CACAO_STEP_TYPE_ACTION), NewHash(task.Id))
      found == TaskOnCompletion(task, stepMap, nextStepMap)
      endId == NewEndStepId(specVersion, draws)
      step == [ZeroStep EXCEPT
                 !.Type = TaskInternalStepType(specVersion, cacaoPlaybook.WorkflowStart, stepId),
                 !.Name = task.Name,
                 !.OnCompletion = IF found = <<>> THEN endId ELSE found,
                 !.Commands = <<[Type |-> commandType, Command |-> task.Name,
                                 Description |-> task.Documentation]>>]
  IN [playbook |-> [cacaoPlaybook EXCEPT !.Workflow = Put(@, stepId, step)],
      draws |-> IF found = <<>> THEN draws + 1 ELSE draws]

ProcessTask(task, commandType, specVersion, stepMap, nextStepMap, cacaoPlaybook, draws) ==
  LET stepId == StepId(StepTypeOf(specVersion, CACAO_STEP_TYPE_ACTION), NewHash(task.Id))
      found == TaskOnCompletion(task, stepMap, nextStepMap)
      endId == NewEndStepId(specVersion, draws)
      workflow1 == IF found = <<>> THEN Put(cacaoPlaybook.Workflow, endId, EndStep)
                   ELSE cacaoPlaybook.Workflow
      onCompletion == IF found = <<>> THEN endId ELSE found
      step == [ZeroStep EXCEPT
                 !.Type = TaskInternalStepType(specVersion, cacaoPlaybook.WorkflowStart, stepId),
                 !.Name = task.Name,
                 !.OnCompletion = onCompletion,
                 !.Commands = <<[Type |-> commandType, Command |-> task.Name,
                                 Description |-> task.Documentation]>>]
  IN [playbook |-> [cacaoPlaybook EXCEPT !.Workflow = Put(workflow1, stepId, step)],
      draws |-> IF found = <<>> THEN draws + 1 ELSE draws]

(***************************************************************************)
(* ProcessGateway (src/cacao/cacao.go:174-276).                            *)
(***************************************************************************)
\* the parallel branch: one next step per element of Outgoing, by position
RECURSIVE ParallelNextSteps(_, _, _, _)
ParallelNextSteps(gateway, n, stepMap, nextStepMap) ==
  IF n = 0 THEN <<>>
  ELSE Append(ParallelNextSteps(gateway, n - 1, stepMap, nextStepMap),
              Get(stepMap, Get(nextStepMap, FlowKeyN(gateway.Id, n - 1))))

\* the variable name made of the gateway's name, or its id
GatewayCondition(gateway) ==
  LET condition == StripNonIdent(ToLower(ReplaceSpaces(gateway.Name)))
  IN IF condition = <<>> THEN gateway.Id ELSE condition
GatewayName(gateway) == IF gateway.Name = <<>> THEN gateway.Id ELSE gateway.Name

\* cacaoPlaybook.PlaybookVariables[condition] = PlaybookVariable{...}
RegisterVariable(variables, gateway) ==
  Put(variables, GatewayCondition(gateway),
      [Type |-> "integer", Description |-> GatewayName(gateway),
       Value |-> <<"0">>, Constant |-> FALSE])

\* stepMap[nextStepMap[fmt.Sprintf("%s:%s", gateway.Id, "YES")]], and "NO"
BranchTarget(gateway, discriminator, stepMap, nextStepMap) ==
  Get(stepMap, Get(nextStepMap, FlowKey(gateway.Id, discriminator)))

\* the keys of nextStepMap the switch loop takes for the gateway's, and the
\* case name it makes of each
SwitchKeys(gateway, nextStepMap) ==
  {key \in DOMAIN nextStepMap : HasPrefix(key, gateway.Id)}
SwitchCaseName(gateway, key) == TrimPrefix(key, gateway.Id \o <<":">>)

\* the case tables the switch loop can leave: the range over nextStepMap
\* visits the keys in any order, and when two keys make the same case name
\* the one visited last stays
SwitchCases(gateway, stepMap, nextStepMap) ==
  LET keys == SwitchKeys(gateway, nextStepMap)
      names == {SwitchCaseName(gateway, key) : key \in keys}
      all == {<<Get(stepMap, nextStepMap[key])>> : key \in keys}
  IN {cases \in [names -> all] :
        \A name \in names : \E key \in keys :
           /\ SwitchCaseName(gateway, key) = name
           /\ cases[name] = <<Get(stepMap, nextStepMap[key])>>}

ProcessParallel(gateway, specVersion, stepMap, nextStepMap, cacaoPlaybook) ==
  LET stepId == StepId(StepTypeOf(specVersion, CACAO_STEP_TYPE_PARALLEL), NewHash(gateway.Id))
      step == [ZeroStep EXCEPT
                 !.Type = CACAO_STEP_TYPE_PARALLEL,
                 !.NextSteps = ParallelNextSteps(gateway, Len(gateway.Outgoing),
                                                 stepMap, nextStepMap)]
  IN [cacaoPlaybook EXCEPT !.Workflow = Put(@, stepId, step)]

\* faulty variant: the false branch is not repaired
ProcessIf_NoFalseRepair(gateway, specVersion, stepMap, nextStepMap, cacaoPlaybook, draws) ==
  LET stepId == StepId(StepTypeOf(specVersion, CACAO_STEP_TYPE_IF_COND), NewHash(gateway.Id))
      condition == GatewayCondition(gateway)
      foundTrue == BranchTarget(gateway, <<"Y","E","S">>, stepMap, nextStepMap)
      trueId == NewEndStepId(specVersion, draws)
      workflow1 == IF foundTrue = <<>> THEN Put(cacaoPlaybook.Workflow, trueId, EndStep)
                   ELSE cacaoPlaybook.Workflow
      step == [ZeroStep EXCEPT
                 !.Type = CACAO_STEP_TYPE_IF_COND,
                 !.Condition = condition \o <<" ","=","="," ","1">>,
                 !.InArgs = <<condition>>,
                 !.Name = GatewayName(gateway),
                 !.OnTrue = IF foundTrue = <<>> THEN trueId ELSE foundTrue,
                 !.OnFalse = BranchTarget(gateway, <<"N","O">>, stepMap, nextStepMap)]
  IN [playbook |-> [cacaoPlaybook EXCEPT !.Workflow = Put(workflow1, stepId, step)],
      draws |-> IF foundTrue = <<>> THEN draws + 1 ELSE draws]

ProcessIf(gateway, specVersion, stepMap, nextStepMap, cacaoPlaybook, draws) ==
  LET stepId == StepId(StepTypeOf(specVersion, CACAO_STEP_TYPE_IF_COND), NewHash(gateway.Id))
      condition == GatewayCondition(gateway)
      foundTrue == BranchTarget(gateway, <<"Y","E","S">>, stepMap, nextStepMap)
      trueId == NewEndStepId(specVersion, draws)
      draws1 == IF foundTrue = <<>> THEN draws + 1 ELSE draws
      workflow1 == IF foundTrue = <<>> THEN Put(cacaoPlaybook.Workflow, trueId, EndStep)
                   ELSE cacaoPlaybook.Workflow
      foundFalse == BranchTarget(gateway, <<"N","O">>, stepMap, nextStepMap)
      falseId == NewEndStepId(specVersion, draws1)
      draws2 == IF foundFalse = <<>> THEN draws1 + 1 ELSE draws1
      workflow2 == IF foundFalse = <<>> THEN Put(workflow1, falseId, EndStep)
                   ELSE workflow1
      step == [ZeroStep EXCEPT
                 !.Type = CACAO_STEP_TYPE_IF_COND,
                 !.Condition = condition \o <<" ","=","="," ","1">>,
                 !.InArgs = <<condition>>,
                 !.Name = GatewayName(gateway),
                 !.OnTrue = IF foundTrue = <<>> THEN trueId ELSE foundTrue,
                 !.OnFalse = IF foundFalse = <<>> THEN falseId ELSE foundFalse]
  IN [playbook |-> [cacaoPlaybook EXCEPT !.Workflow = Put(workflow2, stepId, step)],
      draws |-> draws2]

ProcessSwitch(gateway, specVersion, cases, cacaoPlaybook) ==
  LET stepId == StepId(StepTypeOf(specVersion, CACAO_STEP_TYPE_SWITCH_COND), NewHash(gateway.Id))
      condition == GatewayCondition(gateway)
      step == [ZeroStep EXCEPT
                 !.Type = CACAO_STEP_TYPE_SWITCH_COND,
                 !.InArgs = <<condition>>,
                 !.Name = GatewayName(gateway),
                 !.Cases = cases,
                 !.Switch = condition]
  IN [cacaoPlaybook EXCEPT !.Workflow = Put(@, stepId, step)]

\* faulty variant: the if-condition branch is taken for up to two Outgoing
ProcessGateway_IfUpToTwo(gateway, specVersion, parallel, stepMap, nextStepMap, cacaoPlaybook, draws) ==
  IF parallel
    THEN {[playbook |-> ProcessParallel(gateway, specVersion, stepMap, nextStepMap,
                                        cacaoPlaybook),
           draws |-> draws]}
    ELSE LET registered ==
               [cacaoPlaybook EXCEPT !.PlaybookVariables = RegisterVariable(@, gateway)]
         IN IF Len(gateway.Outgoing) <= 2
              THEN {ProcessIf(gateway, specVersion, stepMap, nextStepMap, registered, draws)}
              ELSE {[playbook |-> ProcessSwitch(gateway, specVersion, cases, registered),
                     draws |-> draws] :
                    cases \in SwitchCases(gateway, stepMap, nextStepMap)}

\* the set of results ProcessGateway can produce
ProcessGateway(gateway, specVersion, parallel, stepMap, nextStepMap, cacaoPlaybook, draws) ==
  IF parallel
    THEN {[playbook |-> ProcessParallel(gateway, specVersion, stepMap, nextStepMap,
                                        cacaoPlaybook),
           draws |-> draws]}
    ELSE LET registered ==
               [cacaoPlaybook EXCEPT !.PlaybookVariables = RegisterVariable(@, gateway)]
         IN IF Len(gateway.Outgoing) = 2
              THEN {ProcessIf(gateway, specVersion, stepMap, nextStepMap, registered, draws)}
            ELSE IF Len(gateway.Outgoing) > 2
              THEN {[playbook |-> ProcessSwitch(gateway, specVersion, cases, registered),
                     draws |-> draws] :
                    cases \in SwitchCases(gateway, stepMap, nextStepMap)}
            ELSE {[playbook |-> registered, draws |-> draws]}

(***************************************************************************)
(* ConvertToCacao: the step-id index (src/cacao/cacao.go:286-378).         *)
(***************************************************************************)
\* a loop of stepMap[node.Id] = fmt.Sprintf("%s--%s", stepType, uuid)
RECURSIVE ClassifyAs(_, _, _)
ClassifyAs(stepMap, nodes, stepType) ==
  IF nodes = <<>> THEN stepMap
  ELSE ClassifyAs(Put(stepMap, Head(nodes).Id, StepId(stepType, NewHash(Head(nodes).Id))),
                  Tail(nodes), stepType)

\* lines 306-311: the start marker
ClassifyStartEvent(bpmnProcess, specVersion) ==
  IF bpmnProcess.StartEvent # <<>>
    THEN LET id == bpmnProcess.StartEvent[1].Id
             startStepId == StepId(StepTypeOf(specVersion, CACAO_STEP_TYPE_START), NewHash(id))
         IN [stepMap |-> Put(EmptyMap, id, startStepId), startStepId |-> startStepId]
    ELSE [stepMap |-> EmptyMap, startStepId |-> <<>>]

\* lines 312-321: the intermediate-catch-events
RECURSIVE ClassifyCatchEvents(_, _, _)
ClassifyCatchEvents(st, tasks, specVersion) ==
  IF tasks = <<>> THEN st
  ELSE LET task == Head(tasks)
           next ==
             IF st.startStepId # <<>>
               THEN [st EXCEPT !.stepMap =
                       Put(@, task.Id, StepId(StepTypeOf(specVersion, CACAO_STEP_TYPE_ACTION),
                                              NewHash(task.Id)))]
               ELSE [st EXCEPT !.startStepId =
                       StepId(StepTypeOf(specVersion, CACAO_STEP_TYPE_START), NewHash(task.Id))]
       IN ClassifyCatchEvents(next, Tail(tasks), specVersion)

\* lines 360-369: the exclusive gateways
RECURSIVE ClassifyExclusiveGateways(_, _, _)
ClassifyExclusiveGateways(stepMap, gateways, specVersion) ==
  IF gateways = <<>> THEN stepMap
  ELSE LET g == Head(gateways)
           uuid == NewHash(g.Id)
           next ==
             IF Len(g.Outgoing) = 2
               THEN Put(stepMap, g.Id, StepId(StepTypeOf(specVersion, CACAO_STEP_TYPE_IF_COND), uuid))
             ELSE IF Len(g.Outgoing) > 2
               THEN Put(stepMap, g.Id, StepId(StepTypeOf(specVersion, CACAO_STEP_TYPE_SWITCH_COND), uuid))
             ELSE stepMap
       IN ClassifyExclusiveGateways(next, Tail(gateways), specVersion)

\* lines 370-373 and 374-378: the parallel and the inclusive gateways
ClassifyParallelGateways(stepMap, gateways, specVersion) ==
  ClassifyAs(stepMap, gateways, StepTypeOf(specVersion, CACAO_STEP_TYPE_PARALLEL))
ClassifyInclusiveGateways(stepMap, gateways, specVersion) ==
  ClassifyAs(stepMap, gateways, StepTypeOf(specVersion, CACAO_STEP_TYPE_PARALLEL))

\* lines 323-359: end markers and the task kinds
ClassifyTasksAndEnds(stepMap, bpmnProcess, specVersion) ==
  LET endStepType == StepTypeOf(specVersion, CACAO_STEP_TYPE_END)
      actionStepType == StepTypeOf(specVersion, CACAO_STEP_TYPE_ACTION)
      m1 == ClassifyAs(stepMap, bpmnProcess.EndEvent, endStepType)
      m2 == ClassifyAs(m1, bpmnProcess.ServiceTask, actionStepType)
      m3 == ClassifyAs(m2, bpmnProcess.UserTask, actionStepType)
      m4 == ClassifyAs(m3, bpmnProcess.ManualTask, actionStepType)
      m5 == ClassifyAs(m4, bpmnProcess.ScriptTask, actionStepType)
      m6 == ClassifyAs(m5, bpmnProcess.SendTask, actionStepType)
      m7 == ClassifyAs(m6, bpmnProcess.Task, actionStepType)
      m8 == ClassifyAs(m7, bpmnProcess.IntermediateThrowEvent, actionStepType)
  IN ClassifyAs(m8, bpmnProcess.EndEvent, endStepType)

\* lines 286-378: [stepMap, startStepId] after every category
Classify(bpmnProcess, specVersion) ==
  LET st1 == ClassifyStartEvent(bpmnProcess, specVersion)
      st2 == ClassifyCatchEvents(st1, bpmnProcess.IntermediateCatchEvent, specVersion)
      m3 == ClassifyTasksAndEnds(st2.stepMap, bpmnProcess, specVersion)
      m4 == ClassifyExclusiveGateways(m3, bpmnProcess.ExclusiveGateway, specVersion)
      m5 == ClassifyParallelGateways(m4, bpmnProcess.ParallelGateway, specVersion)
      m6 == ClassifyInclusiveGateways(m5, bpmnProcess.InclusiveGateway, specVersion)
  IN [stepMap |-> m6, startStepId |-> st2.startStepId]

(***************************************************************************)
(* ConvertToCacao: the transition index (src/cacao/cacao.go:384-399).      *)
(***************************************************************************)
\* lines 390-396: the first i >= 0 whose key is unused
RECURSIVE Probe(_, _, _)
Probe(nextStepMap, sourceRef, i) ==
  IF FlowKeyN(sourceRef, i) \notin DOMAIN nextStepMap THEN i
  ELSE Probe(nextStepMap, sourceRef, i + 1)

\* faulty variant: the label is not upper-cased
NextStepMapKey_NoUpper(nextStepMap, sequenceFlow) ==
  IF sequenceFlow.Name # <<>>
    THEN FlowKey(sequenceFlow.SourceRef, sequenceFlow.Name)
    ELSE FlowKeyN(sequenceFlow.SourceRef, Probe(nextStepMap, sequenceFlow.SourceRef, 0))

NextStepMapKey(nextStepMap, sequenceFlow) ==
  IF sequenceFlow.Name # <<>>
    THEN FlowKey(sequenceFlow.SourceRef, ToUpper(sequenceFlow.Name))
    ELSE FlowKeyN(sequenceFlow.SourceRef, Probe(nextStepMap, sequenceFlow.SourceRef, 0))

\* one iteration of the loop over SequenceFlow
IndexFlow(nextStepMap, sequenceFlow) ==
  Put(nextStepMap, NextStepMapKey(nextStepMap, sequenceFlow), sequenceFlow.TargetRef)

(***************************************************************************)
(* ConvertToCacao: the order of the lowering loops (lines 423-465).        *)
(***************************************************************************)
TaskItems(tasks, commandType) ==
  [i \in 1..Len(tasks) |->
     [op |-> "task", node |-> tasks[i], commandType |-> commandType, parallel |-> FALSE]]
EndItems(endEvents) ==
  [i \in 1..Len(endEvents) |->
     [op |-> "end", node |-> endEvents[i], commandType |-> "", parallel |-> FALSE]]
GatewayItems(gateways, parallel) ==
  [i \in 1..Len(gateways) |->
     [op |-> "gateway", node |-> gateways[i], commandType |-> "", parallel |-> parallel]]

LowerOrder(bpmnProcess) ==
  TaskItems(bpmnProcess.IntermediateCatchEvent, CACAO_COMMAND_TYPE_MANUAL)
  \o EndItems(bpmnProcess.EndEvent)
  \o TaskItems(bpmnProcess.ServiceTask, CACAO_COMMAND_TYPE_HTTP)
  \o TaskItems(bpmnProcess.UserTask, CACAO_COMMAND_TYPE_MANUAL)
  \o TaskItems(bpmnProcess.ManualTask, CACAO_COMMAND_TYPE_MANUAL)
  \o TaskItems(bpmnProcess.ScriptTask, CACAO_COMMAND_TYPE_BASH)
  \o TaskItems(bpmnProcess.SendTask, CACAO_COMMAND_TYPE_BASH)
  \o TaskItems(bpmnProcess.Task, CACAO_COMMAND_TYPE_MANUAL)
  \o TaskItems(bpmnProcess.IntermediateThrowEvent, CACAO_COMMAND_TYPE_MANUAL)
  \o GatewayItems(bpmnProcess.ExclusiveGateway, FALSE)
  \o GatewayItems(bpmnProcess.ParallelGateway, TRUE)
  \o GatewayItems(bpmnProcess.InclusiveGateway, FALSE)

\* lines 414-422: the start marker's step
StartStep(startEvent, stepMap, nextStepMap) ==
  [ZeroStep EXCEPT
     !.Type = CACAO_STEP_TYPE_START,
     !.Name = startEvent.Name,
     !.OnCompletion = Get(stepMap, Get(nextStepMap, FlowKeyN(startEvent.Id, 0)))]

(***************************************************************************)
(* State.  Two calls of ConvertToCacao are followed; call c works on       *)
(* doc[c] with specVersion[c].                                             *)
(***************************************************************************)
VARIABLES
  doc,            \* doc[c]: the *bpmn.BpmnDefinitions passed to call c
  specVersion,    \* specVersion[c]: the specVersion passed to call c
  pc,             \* pc[c]: where call c is
  pos,            \* pos[c]: index of the next element of the running loop
  stepMap,        \* stepMap[c]: the step-id index
  nextStepMap,    \* nextStepMap[c]: the transition index
  startStepId,    \* startStepId[c]: the local startStepId
  cacaoPlaybook,  \* cacaoPlaybook[c]: the playbook under construction
  returned,       \* returned[c]: the (playbook, error) pair returned
  draws           \* values delivered so far by the random source of uuid.New

vars == <<doc, specVersion, pc, pos, stepMap, nextStepMap, startStepId,
          cacaoPlaybook, returned, draws>>

Calls == {1, 2}

\* the only process of a valid document, and its lowering loops
BpmnProcess(c) == doc[c].Processes[1]
Items(c) == LowerOrder(BpmnProcess(c))

InitCalls ==
  /\ specVersion = [c \in Calls |-> ""]
  /\ pc = [c \in Calls |-> "idle"]
  /\ pos = [c \in Calls |-> 0]
  /\ stepMap = [c \in Calls |-> EmptyMap]
  /\ nextStepMap = [c \in Calls |-> EmptyMap]
  /\ startStepId = [c \in Calls |-> <<>>]
  /\ cacaoPlaybook = [c \in Calls |-> ZeroPlaybook]
  /\ returned = [c \in Calls |-> [playbook |-> <<>>, err |-> <<>>]]
  /\ draws = 0

\* the same document is converted twice
Init ==
  /\ \E d \in Docs : doc = [c \in Calls |-> d]
  /\ InitCalls

\* main calls cacao.ConvertToCacao(bpmnDefinition, cacaoSpecVersion)
Convert(c, v) ==
  /\ pc[c] = "idle"
  /\ pc' = [pc EXCEPT ![c] = "validate"]
  /\ specVersion' = [specVersion EXCEPT ![c] = v]
  /\ UNCHANGED <<doc, pos, stepMap, nextStepMap, startStepId, cacaoPlaybook,
                 returned, draws>>

\* faulty variant: only a document without process is refused
Validate_NoProcessOnly(c) ==
  /\ pc[c] = "validate"
  /\ IF Len(doc[c].Processes) < 1
       THEN /\ pc' = [pc EXCEPT ![c] = "failed"]
            /\ returned' = [returned EXCEPT ![c] =
                 [playbook |-> <<>>,
                  err |-> <<"unexpected number of process definitions: ">>
                          \o Itoa(Len(doc[c].Processes))]]
       ELSE /\ pc' = [pc EXCEPT ![c] = "classify"]
            /\ UNCHANGED returned
  /\ UNCHANGED <<doc, specVersion, pos, stepMap, nextStepMap, startStepId,
                 cacaoPlaybook, draws>>

\* lines 280-282
Validate(c) ==
  /\ pc[c] = "validate"
  /\ IF Len(doc[c].Processes) # 1
       THEN /\ pc' = [pc EXCEPT ![c] = "failed"]
            /\ returned' = [returned EXCEPT ![c] =
                 [playbook |-> <<>>,
                  err |-> <<"unexpected number of process definitions: ">>
                          \o Itoa(Len(doc[c].Processes))]]
       ELSE /\ pc' = [pc EXCEPT ![c] = "classify"]
            /\ UNCHANGED returned
  /\ UNCHANGED <<doc, specVersion, pos, stepMap, nextStepMap, startStepId,
                 cacaoPlaybook, draws>>

\* faulty variant: the step-id index is one map of the package, shared by
\* every call
ClassifyNodes_SharedIndex(c) ==
  /\ pc[c] = "classify"
  /\ LET st == Classify(BpmnProcess(c), specVersion[c])
     IN /\ stepMap' = [d \in Calls |->
                         [k \in DOMAIN stepMap[d] \cup DOMAIN st.stepMap |->
                            IF k \in DOMAIN st.stepMap THEN st.stepMap[k] ELSE stepMap[d][k]]]
        /\ startStepId' = [startStepId EXCEPT ![c] = st.startStepId]
  /\ pc' = [pc EXCEPT ![c] = "transitions"]
  /\ pos' = [pos EXCEPT ![c] = 1]
  /\ UNCHANGED <<doc, specVersion, nextStepMap, cacaoPlaybook, returned, draws>>

\* lines 283-378
ClassifyNodes(c) ==
  /\ pc[c] = "classify"
  /\ LET st == Classify(BpmnProcess(c), specVersion[c])
     IN /\ stepMap' = [stepMap EXCEPT ![c] = st.stepMap]
        /\ startStepId' = [startStepId EXCEPT ![c] = st.startStepId]
  /\ pc' = [pc EXCEPT ![c] = "transitions"]
  /\ pos' = [pos EXCEPT ![c] = 1]
  /\ UNCHANGED <<doc, specVersion, nextStepMap, cacaoPlaybook, returned, draws>>

\* faulty variant: the loop stays on a labeled sequence flow
IndexSequenceFlow_StuckOnLabel(c) ==
  /\ pc[c] = "transitions"
  /\ pos[c] <= Len(BpmnProcess(c).SequenceFlow)
  /\ nextStepMap' = [nextStepMap EXCEPT ![c] =
       IndexFlow(@, BpmnProcess(c).SequenceFlow[pos[c]])]
  /\ pos' = [pos EXCEPT ![c] =
       IF BpmnProcess(c).SequenceFlow[pos[c]].Name # <<>> THEN @ ELSE @ + 1]
  /\ UNCHANGED <<doc, specVersion, pc, stepMap, startStepId, cacaoPlaybook,
                 returned, draws>>

\* lines 385-399, one sequence flow
IndexSequenceFlow(c) ==
  /\ pc[c] = "transitions"
  /\ pos[c] <= Len(BpmnProcess(c).SequenceFlow)
  /\ nextStepMap' = [nextStepMap EXCEPT ![c] =
       IndexFlow(@, BpmnProcess(c).SequenceFlow[pos[c]])]
  /\ pos' = [pos EXCEPT ![c] = @ + 1]
  /\ UNCHANGED <<doc, specVersion, pc, stepMap, startStepId, cacaoPlaybook,
                 returned, draws>>

\* lines 284 and 401-412
NewPlaybook(bpmnProcess, v, start) ==
  [ZeroPlaybook EXCEPT
     !.Type = "playbook",
     !.SpecVersion = v,
     !.ID = <<"playbook", "--">> \o NewHash(bpmnProcess.Id),
     !.Name = bpmnProcess.Name,
     !.WorkflowStart = start]

CreatePlaybook(c) ==
  /\ pc[c] = "transitions"
  /\ pos[c] > Len(BpmnProcess(c).SequenceFlow)
  /\ cacaoPlaybook' = [cacaoPlaybook EXCEPT ![c] =
       NewPlaybook(BpmnProcess(c), specVersion[c], startStepId[c])]
  /\ pc' = [pc EXCEPT ![c] = "start"]
  /\ UNCHANGED <<doc, specVersion, pos, stepMap, nextStepMap, startStepId,
                 returned, draws>>

\* lines 414-422
CreateStartStep(c) ==
  /\ pc[c] = "start"
  /\ IF BpmnProcess(c).StartEvent # <<>>
       THEN cacaoPlaybook' = [cacaoPlaybook EXCEPT ![c].Workflow =
              Put(@, Get(stepMap[c], BpmnProcess(c).StartEvent[1].Id),
                  StartStep(BpmnProcess(c).StartEvent[1], stepMap[c], nextStepMap[c]))]
       ELSE UNCHANGED cacaoPlaybook
  /\ pc' = [pc EXCEPT ![c] = "lower"]
  /\ pos' = [pos EXCEPT ![c] = 1]
  /\ UNCHANGED <<doc, specVersion, stepMap, nextStepMap, startStepId, returned, draws>>

AtItem(c, op) ==
  /\ pc[c] = "lower"
  /\ pos[c] <= Len(Items(c))
  /\ Items(c)[pos[c]].op = op

\* one call of ProcessTask (lines 423-425, 435-455)
LowerTask(c) ==
  /\ AtItem(c, "task")
  /\ LET item == Items(c)[pos[c]]
         res == ProcessTask(item.node, item.commandType, specVersion[c],
                            stepMap[c], nextStepMap[c], cacaoPlaybook[c], draws)
     IN /\ cacaoPlaybook' = [cacaoPlaybook EXCEPT ![c] = res.playbook]
        /\ draws' = res.draws
  /\ pos' = [pos EXCEPT ![c] = @ + 1]
  /\ UNCHANGED <<doc, specVersion, pc, stepMap, nextStepMap, startStepId, returned>>

\* lines 427-433, one end marker
CreateEndStep(c) ==
  /\ AtItem(c, "end")
  /\ cacaoPlaybook' = [cacaoPlaybook EXCEPT ![c].Workflow =
       Put(@, Get(stepMap[c], Items(c)[pos[c]].node.Id), EndStep)]
  /\ pos' = [pos EXCEPT ![c] = @ + 1]
  /\ UNCHANGED <<doc, specVersion, pc, stepMap, nextStepMap, startStepId,
                 returned, draws>>

\* one call of ProcessGateway (lines 457-465)
LowerGateway(c) ==
  /\ AtItem(c, "gateway")
  /\ LET item == Items(c)[pos[c]]
     IN \E res \in ProcessGateway(item.node, specVersion[c], item.parallel,
                                  stepMap[c], nextStepMap[c], cacaoPlaybook[c], draws) :
          /\ cacaoPlaybook' = [cacaoPlaybook EXCEPT ![c] = res.playbook]
          /\ draws' = res.draws
  /\ pos' = [pos EXCEPT ![c] = @ + 1]
  /\ UNCHANGED <<doc, specVersion, pc, stepMap, nextStepMap, startStepId, returned>>

\* line 466
Return(c) ==
  /\ pc[c] = "lower"
  /\ pos[c] > Len(Items(c))
  /\ pc' = [pc EXCEPT ![c] = "done"]
  /\ returned' = [returned EXCEPT ![c] = [playbook |-> <<cacaoPlaybook[c]>>, err |-> <<>>]]
  /\ UNCHANGED <<doc, specVersion, pos, stepMap, nextStepMap, startStepId,
                 cacaoPlaybook, draws>>

Finished(c) == pc[c] \in {"done", "failed"}

\* the steps of call c
Step(c) ==
  \/ Validate(c)
  \/ ClassifyNodes(c)
  \/ IndexSequenceFlow(c)
  \/ CreatePlaybook(c)
  \/ CreateStartStep(c)
  \/ LowerTask(c)
  \/ CreateEndStep(c)
  \/ LowerGateway(c)
  \/ Return(c)

\* the second call starts when the first has returned
Next ==
  \/ \E v \in SpecVersions : Convert(1, v)
  \/ \E v \in SpecVersions : Finished(1) /\ Convert(2, v)
  \/ \E c \in Calls : Step(c)

Spec == Init /\ [][Next]_vars

\* one call alone, on any of the documents
NextSingle ==
  \/ \E v \in SpecVersions : Convert(1, v)
  \/ Step(1)

SingleSpec == Init /\ [][NextSingle]_vars

(***************************************************************************)
(* ConvertToCacao as a function of its arguments: the playbooks one call,  *)
(* run alone from a random source that has delivered nothing, can return   *)
(* for a document with one process.                                        *)
(***************************************************************************)
\* the loop of lines 385-399
RECURSIVE IndexAll(_, _)
IndexAll(index, flows) ==
  IF flows = <<>> THEN index
  ELSE IndexAll(IndexFlow(index, Head(flows)), Tail(flows))

\* one element of the lowering loops
LowerItem(item, v, stepIndex, flowIndex, playbook, n) ==
  CASE item.op = "task" ->
         {ProcessTask(item.node, item.commandType, v, stepIndex, flowIndex, playbook, n)}
    [] item.op = "end" ->
         {[playbook |-> [playbook EXCEPT !.Workflow =
                           Put(@, Get(stepIndex, item.node.Id), EndStep)],
           draws |-> n]}
    [] item.op = "gateway" ->
         ProcessGateway(item.node, v, item.parallel, stepIndex, flowIndex, playbook, n)

\* the lowering loops, lines 423-465
RECURSIVE LowerAll(_, _, _, _, _)
LowerAll(results, items, v, stepIndex, flowIndex) ==
  IF items = <<>> THEN results
  ELSE LowerAll(UNION {LowerItem(Head(items), v, stepIndex, flowIndex, r.playbook, r.draws) :
                         r \in results},
                Tail(items), v, stepIndex, flowIndex)

ConvertToCacao(bpmnDefinition, v) ==
  LET bpmnProcess == bpmnDefinition.Processes[1]
      st == Classify(bpmnProcess, v)
      flowIndex == IndexAll(EmptyMap, bpmnProcess.SequenceFlow)
      created == NewPlaybook(bpmnProcess, v, st.startStepId)
      started ==
        IF bpmnProcess.StartEvent # <<>>
          THEN [created EXCEPT !.Workflow =
                  Put(@, Get(st.stepMap, bpmnProcess.StartEvent[1].Id),
                      StartStep(bpmnProcess.StartEvent[1], st.stepMap, flowIndex))]
          ELSE created
  IN {r.playbook :
        r \in LowerAll({[playbook |-> started, draws |-> 0]}, LowerOrder(bpmnProcess),
                       v, st.stepMap, flowIndex)}

(***************************************************************************)
(* Two calls side by side: each on its own document, begun at any time,    *)
(* their steps interleaved in any order.  The random source is the one     *)
(* thing of the process they share.                                        *)
(***************************************************************************)
InitInterleaved ==
  /\ \E d1 \in PairDocs(<<>>) : \E tag \in Tags : \E d2 \in PairDocs(tag) :
       doc = [c \in Calls |-> IF c = 1 THEN d1 ELSE d2]
  /\ InitCalls

NextInterleaved ==
  \/ \E c \in Calls : \E v \in SpecVersions : Convert(c, v)
  \/ \E c \in Calls : Step(c)

InterleavedSpec == InitInterleaved /\ [][NextInterleaved]_vars

(***************************************************************************)
(* Vocabulary of the properties.                                           *)
(***************************************************************************)
Done(c) == pc[c] = "done"
\* the playbook call c returned, and its step graph
Playbook(c) == returned[c].playbook[1]
Workflow(c) == Playbook(c).Workflow

\* the uuid part of a step id, and whether it was drawn by uuid.New
UuidOf(stepId) == SubSeq(stepId, 3, Len(stepId))
IsSynthesized(stepId) == Len(stepId) >= 3 /\ stepId[3] = "v4"
SynthesizedKeys(workflow) == {k \in DOMAIN workflow : IsSynthesized(k)}
DerivedKeys(workflow) == {k \in DOMAIN workflow : ~IsSynthesized(k)}
\* the keys of the steps made of the source node id
StepsOf(workflow, id) == {k \in DOMAIN workflow : UuidOf(k) = NewHash(id)}

\* the nodes of the process of call c, by how they are lowered
TaskNodes(c) == {it.node : it \in {i \in Range(Items(c)) : i.op = "task"}}
ConditionalGateways(c) ==
  {it.node : it \in {i \in Range(Items(c)) : i.op = "gateway" /\ ~i.parallel}}
AllGateways(c) == {it.node : it \in {i \in Range(Items(c)) : i.op = "gateway"}}
\* the transitions of the process whose source is the node id
FlowsFrom(c, id) ==
  {i \in DOMAIN BpmnProcess(c).SequenceFlow : BpmnProcess(c).SequenceFlow[i].SourceRef = id}

\* every id a step holds as a successor: the set on_completion, on_true and
\* on_false, and every element of next_steps and of every case's list
Successors(step) ==
  ({step.OnCompletion, step.OnTrue, step.OnFalse} \ {<<>>})
  \cup Range(step.NextSteps)
  \cup UNION {Range(step.Cases[name]) : name \in DOMAIN step.Cases}

(***************************************************************************)
(* C1  Referential closure: after ConvertToCacao returns a playbook, every *)
(* id held in a successor field of a step of Workflow is a key of          *)
(* Workflow.  The code breaks it: an unresolved entry of next_steps or of  *)
(* a case list is the empty id, and under 2.0 an inclusive gateway is      *)
(* indexed as parallel--<uuid> and stored as if-condition--<uuid>.         *)
(***************************************************************************)
C1_ReferentialClosure ==
  \A c \in Calls : Done(c) =>
    \A k \in DOMAIN Workflow(c) : Successors(Workflow(c)[k]) \subseteq DOMAIN Workflow(c)

HasEntry(c) ==
  BpmnProcess(c).StartEvent # <<>> \/ BpmnProcess(c).IntermediateCatchEvent # <<>>

(***************************************************************************)
(* C2  Single start: with a start marker, or with none and at least one    *)
(* intermediate-catch-event, WorkflowStart is a key of the returned        *)
(* Workflow and the step stored under it has Type start.  The code breaks  *)
(* it under 2.0 for a promoted catch event: WorkflowStart is               *)
(* start--<uuid>, the step is stored under action--<uuid> with Type action.*)
(***************************************************************************)
C2_SingleStart ==
  \A c \in Calls : (Done(c) /\ HasEntry(c)) =>
    /\ Playbook(c).WorkflowStart \in DOMAIN Workflow(c)
    /\ Workflow(c)[Playbook(c).WorkflowStart].Type = CACAO_STEP_TYPE_START
    /\ Cardinality({k \in DOMAIN Workflow(c) :
                      Workflow(c)[k].Type = CACAO_STEP_TYPE_START}) = 1

SameInput == doc[1] = doc[2] /\ specVersion[1] = specVersion[2]

(***************************************************************************)
(* C3  Determinism.  As claimed: two calls on the same document with the   *)
(* same spec version return the same Workflow, start and variable table.   *)
(***************************************************************************)
C3_Original ==
  (Done(1) /\ Done(2) /\ SameInput) =>
    /\ Workflow(1) = Workflow(2)
    /\ Playbook(1).WorkflowStart = Playbook(2).WorkflowStart
    /\ Playbook(1).PlaybookVariables = Playbook(2).PlaybookVariables

\* a step id with the random part of a synthesized id left out
Canon(stepId) == IF IsSynthesized(stepId) THEN SubSeq(stepId, 1, 3) ELSE stepId
\* a step with its successors made canonical and its case table left out
CanonStep(step) ==
  [step EXCEPT !.OnCompletion = Canon(@), !.OnTrue = Canon(@), !.OnFalse = Canon(@),
               !.NextSteps = [i \in DOMAIN @ |-> Canon(@[i])],
               !.Cases = EmptyMap]
\* the case names of gateway g that more than one key of the index makes
AmbiguousCases(g, index) ==
  {SwitchCaseName(g, k1) : k1 \in {k \in SwitchKeys(g, index) :
      \E k2 \in SwitchKeys(g, index) :
         k2 # k /\ SwitchCaseName(g, k2) = SwitchCaseName(g, k)}}
AmbiguousNames(c) ==
  UNION {AmbiguousCases(g, nextStepMap[c]) : g \in ConditionalGateways(c)}

(***************************************************************************)
(* C3 (amended)  Two calls on the same document with the same spec version *)
(* return the same start id, the same variable table, the same derived     *)
(* Workflow keys and as many synthesized End steps; the steps under a      *)
(* derived key agree up to the random part of the ids of synthesized End   *)
(* steps, and up to the target of a switch case whose name more than one   *)
(* key of the transition index makes.                                      *)
(***************************************************************************)
C3_DeterminismUpToSynthesizedIds ==
  (Done(1) /\ Done(2) /\ SameInput) =>
    /\ Playbook(1).WorkflowStart = Playbook(2).WorkflowStart
    /\ Playbook(1).PlaybookVariables = Playbook(2).PlaybookVariables
    /\ DerivedKeys(Workflow(1)) = DerivedKeys(Workflow(2))
    /\ Cardinality(SynthesizedKeys(Workflow(1))) = Cardinality(SynthesizedKeys(Workflow(2)))
    /\ \A c \in Calls : \A k \in SynthesizedKeys(Workflow(c)) : Workflow(c)[k] = EndStep
    /\ \A k \in DerivedKeys(Workflow(1)) :
         /\ CanonStep(Workflow(1)[k]) = CanonStep(Workflow(2)[k])
         /\ DOMAIN Workflow(1)[k].Cases = DOMAIN Workflow(2)[k].Cases
         /\ \A name \in DOMAIN Workflow(1)[k].Cases :
              name \notin AmbiguousNames(1) =>
                Workflow(1)[k].Cases[name] = Workflow(2)[k].Cases[name]

\* both calls returned, an End step was synthesized, the results differ
C3_Witness ==
  /\ Done(1) /\ Done(2) /\ SameInput
  /\ SynthesizedKeys(Workflow(1)) # {}
  /\ Workflow(1) # Workflow(2)

(***************************************************************************)
(* C4  Validation: a call fails exactly when its document does not hold    *)
(* exactly one process, a failed call returns no playbook and an error,    *)
(* and a call that returns a playbook returns a nil error.                 *)
(***************************************************************************)
C4_Validation ==
  \A c \in Calls :
    /\ pc[c] = "failed" =>
         /\ Len(doc[c].Processes) # 1
         /\ returned[c].playbook = <<>>
         /\ returned[c].err # <<>>
    /\ Len(doc[c].Processes) # 1 => pc[c] \in {"idle", "validate", "failed"}
    /\ Done(c) =>
         /\ Len(doc[c].Processes) = 1
         /\ returned[c].playbook # <<>>
         /\ returned[c].err = <<>>
    /\ ~Finished(c) => returned[c].playbook = <<>>

\* a document with two processes was refused and one with none as well
C4_Witness ==
  /\ pc[1] = "failed" /\ returned[1].playbook = <<>> /\ returned[1].err # <<>>
  /\ Len(doc[1].Processes) # 1

RepairLookups(c) ==
  {FlowKeyN(t.Id, 0) : t \in TaskNodes(c)}
  \cup UNION {{FlowKey(g.Id, <<"Y","E","S">>), FlowKey(g.Id, <<"N","O">>)} :
               g \in {h \in ConditionalGateways(c) : Len(h.Outgoing) = 2}}
MissedLookups(c) == {key \in RepairLookups(c) : key \notin DOMAIN nextStepMap[c]}
UnresolvedLookups(c) ==
  {key \in RepairLookups(c) : Get(stepMap[c], Get(nextStepMap[c], key)) = <<>>}

(***************************************************************************)
(* C5  Dangling-edge repair count.  The successor lookups with repair are  *)
(* the "<id>:0" lookup of every node given to ProcessTask and the          *)
(* "<id>:YES" and "<id>:NO" lookups of every conditionally lowered gateway *)
(* with two Outgoing.  As claimed: the synthesized End steps are as many   *)
(* as the lookups whose key is not in the transition index.                *)
(***************************************************************************)
C5_Original ==
  \A c \in Calls : Done(c) =>
    Cardinality(SynthesizedKeys(Workflow(c))) = Cardinality(MissedLookups(c))

(***************************************************************************)
(* C5 (amended)  The synthesized End steps are as many as the lookups that *)
(* are unresolved: the key is not in the transition index, or its target   *)
(* has no entry in the step-id index.  No End step is synthesized for a    *)
(* lookup whose key is in the transition index with a target that is in    *)
(* the step-id index.                                                      *)
(***************************************************************************)
C5_RepairCount ==
  \A c \in Calls : Done(c) =>
    /\ Cardinality(SynthesizedKeys(Workflow(c))) = Cardinality(UnresolvedLookups(c))
    /\ \A k \in SynthesizedKeys(Workflow(c)) : Workflow(c)[k] = EndStep

\* a lookup hit the transition index, its target is not indexed, and an
\* End step was synthesized for it
C5_Witness ==
  /\ Done(1)
  /\ UnresolvedLookups(1) # MissedLookups(1)
  /\ Cardinality(SynthesizedKeys(Workflow(1))) >= 2

\* branch is the resolved target, or a synthesized End step of workflow
BranchPopulated(c, branch, resolved) ==
  IF resolved # <<>> THEN branch = resolved
  ELSE /\ IsSynthesized(branch)
       /\ branch \in DOMAIN Workflow(c)
       /\ Workflow(c)[branch] = EndStep

IfConditionShape(c, g) ==
  /\ Cardinality(StepsOf(Workflow(c), g.Id)) = 1
  /\ \A k \in StepsOf(Workflow(c), g.Id) :
       /\ Workflow(c)[k].Type = CACAO_STEP_TYPE_IF_COND
       /\ Workflow(c)[k].OnTrue # <<>>
       /\ Workflow(c)[k].OnFalse # <<>>
       /\ BranchPopulated(c, Workflow(c)[k].OnTrue,
            Get(stepMap[c], Get(nextStepMap[c], FlowKey(g.Id, <<"Y","E","S">>))))
       /\ BranchPopulated(c, Workflow(c)[k].OnFalse,
            Get(stepMap[c], Get(nextStepMap[c], FlowKey(g.Id, <<"N","O">>))))

(***************************************************************************)
(* C6  Binary gateway shape.  As claimed: every gateway of any kind        *)
(* (exclusive, inclusive, parallel) with two Outgoing yields one step, an  *)
(* if-condition with on_true and on_false set, each to the resolved target *)
(* or to a synthesized End step.                                           *)
(***************************************************************************)
C6_Original ==
  \A c \in Calls : Done(c) =>
    \A g \in AllGateways(c) : Len(g.Outgoing) = 2 => IfConditionShape(c, g)

(***************************************************************************)
(* C6 (amended)  Every conditionally lowered gateway (exclusive or         *)
(* inclusive) with two Outgoing yields one step, an if-condition with      *)
(* on_true and on_false set, each to the resolved target or to a           *)
(* synthesized End step; a parallel gateway with two Outgoing yields one   *)
(* parallel step instead.                                                  *)
(***************************************************************************)
C6_BinaryGatewayShape ==
  \A c \in Calls : Done(c) =>
    /\ \A g \in ConditionalGateways(c) : Len(g.Outgoing) = 2 => IfConditionShape(c, g)
    /\ \A g \in AllGateways(c) \ ConditionalGateways(c) :
         /\ Cardinality(StepsOf(Workflow(c), g.Id)) = 1
         /\ \A k \in StepsOf(Workflow(c), g.Id) :
              Workflow(c)[k].Type = CACAO_STEP_TYPE_PARALLEL

\* an inclusive gateway with two Outgoing was lowered under 2.0 with one
\* branch resolved and the other repaired
C6_Witness ==
  /\ Done(1) /\ specVersion[1] = CACAO_SPEC_VERSION_20
  /\ \E g \in Range(BpmnProcess(1).InclusiveGateway) :
       /\ Len(g.Outgoing) = 2
       /\ \E k \in StepsOf(Workflow(1), g.Id) :
            /\ ~IsSynthesized(Workflow(1)[k].OnTrue)
            /\ IsSynthesized(Workflow(1)[k].OnFalse)

Discriminators(c, g) ==
  {TrimPrefix(key, g.Id \o <<":">>) :
     key \in {k \in DOMAIN nextStepMap[c] : HasPrefix(k, g.Id \o <<":">>)}}

(***************************************************************************)
(* C7  Multi-way gateway shape: a conditionally lowered gateway with more  *)
(* than two Outgoing yields one switch-condition step whose Cases has one  *)
(* entry per discriminator of the index entries of that gateway and no     *)
(* other.  The code breaks it: it takes every key that begins with the     *)
(* gateway's id, so the entries of node G12 become cases of gateway G1.    *)
(***************************************************************************)
C7_SwitchCases ==
  \A c \in Calls : Done(c) =>
    \A g \in ConditionalGateways(c) : Len(g.Outgoing) > 2 =>
      /\ Cardinality(StepsOf(Workflow(c), g.Id)) = 1
      /\ \A k \in StepsOf(Workflow(c), g.Id) :
           /\ Workflow(c)[k].Type = CACAO_STEP_TYPE_SWITCH_COND
           /\ DOMAIN Workflow(c)[k].Cases = Discriminators(c, g)

YesLabels == {Yes, YesMixed, <<"Y","E","S">>, <<"y","E","s">>}
NoLabels == {No, NoUpper, <<"N","o">>, <<"n","O">>}
\* the nodes of the task kinds
TaskKindNodes(c) ==
  LET p == BpmnProcess(c)
  IN Range(p.ServiceTask) \cup Range(p.UserTask) \cup Range(p.ManualTask)
     \cup Range(p.ScriptTask) \cup Range(p.SendTask) \cup Range(p.Task)
     \cup Range(p.IntermediateThrowEvent)
ActionStepId(c, id) ==
  StepId(IF specVersion[c] = CACAO_SPEC_VERSION_11 THEN "step" ELSE "action", NewHash(id))
IfStepId(c, id) ==
  StepId(IF specVersion[c] = CACAO_SPEC_VERSION_11 THEN "step" ELSE "if-condition",
         NewHash(id))
\* the transitions of gateway g are yes -> a and no -> b
YesNoFlows(c, g, a, b) ==
  LET flows == BpmnProcess(c).SequenceFlow
  IN /\ Cardinality(FlowsFrom(c, g.Id)) = 2
     /\ \E i, j \in FlowsFrom(c, g.Id) :
          /\ flows[i].Name \in YesLabels /\ flows[i].TargetRef = a
          /\ flows[j].Name \in NoLabels /\ flows[j].TargetRef = b
\* the only transition of task t is unlabeled and goes to gateway g
Precedes(c, t, g) ==
  LET flows == BpmnProcess(c).SequenceFlow
  IN /\ Cardinality(FlowsFrom(c, t.Id)) = 1
     /\ \A i \in FlowsFrom(c, t.Id) : flows[i].Name = <<>> /\ flows[i].TargetRef = g.Id
\* the variable name expected of the gateway labels of the documents
ExpectedVariable(g) ==
  IF g.Name = <<"I","s"," ","O","K","?">> THEN <<"i","s","_","o","k">> ELSE g.Id

(***************************************************************************)
(* C8  Binary branch resolution: an exclusive gateway with two Outgoing    *)
(* whose two transitions are labeled yes and no in any letter case and go  *)
(* to task nodes a and b yields an if-condition step with on_true the      *)
(* derived id of a and on_false the derived id of b; its condition tests   *)
(* the normalised gateway label, which is a playbook variable; no End step *)
(* is synthesized for the gateway; a task whose only transition is an      *)
(* unlabeled one to the gateway has on_completion the gateway's step id.   *)
(***************************************************************************)
C8_BinaryBranchResolution ==
  \A c \in Calls : Done(c) =>
    \A g \in Range(BpmnProcess(c).ExclusiveGateway) :
      \A a, b \in {t.Id : t \in TaskKindNodes(c)} :
        (Len(g.Outgoing) = 2 /\ YesNoFlows(c, g, a, b)) =>
          /\ IfStepId(c, g.Id) \in DOMAIN Workflow(c)
          /\ LET step == Workflow(c)[IfStepId(c, g.Id)]
             IN /\ step.Type = CACAO_STEP_TYPE_IF_COND
                /\ step.OnTrue = ActionStepId(c, a)
                /\ step.OnFalse = ActionStepId(c, b)
                /\ step.Condition = ExpectedVariable(g) \o <<" ","=","="," ","1">>
                /\ step.InArgs = <<ExpectedVariable(g)>>
                /\ ExpectedVariable(g) \in DOMAIN Playbook(c).PlaybookVariables
          /\ Cardinality(SynthesizedKeys(Workflow(c))) =
               Cardinality({t \in TaskNodes(c) :
                  Get(stepMap[c], Get(nextStepMap[c], FlowKeyN(t.Id, 0))) = <<>>})
          /\ \A t \in TaskKindNodes(c) : Precedes(c, t, g) =>
               /\ ActionStepId(c, t.Id) \in DOMAIN Workflow(c)
               /\ Workflow(c)[ActionStepId(c, t.Id)].OnCompletion = IfStepId(c, g.Id)

\* the scenario was converted: task A precedes gateway G1 "Is OK?", whose
\* transitions are Yes -> A and NO -> B
C8_Witness ==
  /\ Done(1)
  /\ \E g \in Range(BpmnProcess(1).ExclusiveGateway) :
       /\ Len(g.Outgoing) = 2 /\ g.Name # <<>>
       /\ YesNoFlows(1, g, A, B)
       /\ \E i \in FlowsFrom(1, g.Id) : BpmnProcess(1).SequenceFlow[i].Name = YesMixed
       /\ \E t \in TaskKindNodes(1) : Precedes(1, t, g)
       /\ Workflow(1)[IfStepId(1, g.Id)].OnFalse = ActionStepId(1, B)

ActionKind(c) ==
  IF specVersion[c] = CACAO_SPEC_VERSION_11 THEN CACAO_STEP_TYPE_11_SINGLE
  ELSE CACAO_STEP_TYPE_ACTION
\* t is the intermediate-catch-event promoted to declared start
Promoted(c, t) ==
  /\ BpmnProcess(c).StartEvent = <<>>
  /\ BpmnProcess(c).IntermediateCatchEvent # <<>>
  /\ t = BpmnProcess(c).IntermediateCatchEvent[1]

FreshEndSuccessor(c, t, kind) ==
  /\ Cardinality(StepsOf(Workflow(c), t.Id)) = 1
  /\ \A k \in StepsOf(Workflow(c), t.Id) :
       LET end == Workflow(c)[k].OnCompletion
       IN /\ Workflow(c)[k].Type = kind
          /\ IsSynthesized(end)
          /\ end \in DOMAIN Workflow(c)
          /\ Workflow(c)[end] = EndStep
          /\ \A e \in Range(BpmnProcess(c).EndEvent) : Get(stepMap[c], e.Id) # end
          /\ \A other \in DOMAIN Workflow(c) \ {k} :
               end \notin Successors(Workflow(c)[other])

(***************************************************************************)
(* C9  Task without successor.  As claimed: every node given to            *)
(* ProcessTask that is the source of no transition yields one step, of the *)
(* action kind, whose on_completion is the id of a synthesized End step    *)
(* that is a key of Workflow, is no source end marker's step and is held   *)
(* by no other step.                                                       *)
(***************************************************************************)
C9_Original ==
  \A c \in Calls : Done(c) =>
    \A t \in TaskNodes(c) : FlowsFrom(c, t.Id) = {} =>
      FreshEndSuccessor(c, t, ActionKind(c))

(***************************************************************************)
(* C9 (amended)  Every node given to ProcessTask that is the source of no  *)
(* transition yields one step whose on_completion is the id of a           *)
(* synthesized End step that is a key of Workflow, is no source end        *)
(* marker's step and is held by no other step; the step is of the action   *)
(* kind, except that under 1.1 the step of the intermediate-catch-event    *)
(* promoted to declared start is of the start kind.                        *)
(***************************************************************************)
C9_TaskWithoutSuccessor ==
  \A c \in Calls : Done(c) =>
    \A t \in TaskNodes(c) : FlowsFrom(c, t.Id) = {} =>
      FreshEndSuccessor(c, t,
        IF Promoted(c, t) /\ specVersion[c] = CACAO_SPEC_VERSION_11
          THEN CACAO_STEP_TYPE_START ELSE ActionKind(c))

\* a task and a promoted catch event, both without transition, were lowered
C9_Witness ==
  /\ Done(1)
  /\ \E t \in TaskKindNodes(1) : FlowsFrom(1, t.Id) = {}
  /\ \E t \in TaskNodes(1) : Promoted(1, t) /\ FlowsFrom(1, t.Id) = {}
  /\ Cardinality(SynthesizedKeys(Workflow(1))) >= 2

(***************************************************************************)
(* C10  Omission policy: an exclusive gateway with fewer than two Outgoing *)
(* yields no step in Workflow, so no if-condition and no switch-condition  *)
(* step, and the call still returns a playbook and a nil error.            *)
(***************************************************************************)
C10_OmissionPolicy ==
  \A c \in Calls :
    \A g \in IF Len(doc[c].Processes) = 1 THEN Range(BpmnProcess(c).ExclusiveGateway) ELSE {} :
      Len(g.Outgoing) < 2 =>
        /\ StepsOf(cacaoPlaybook[c].Workflow, g.Id) = {}
        /\ pc[c] # "failed"
        /\ Done(c) =>
             /\ returned[c].playbook # <<>> /\ returned[c].err = <<>>
             /\ StepsOf(Workflow(c), g.Id) = {}
             /\ \A k \in DOMAIN Workflow(c) :
                  Workflow(c)[k].Type \in {CACAO_STEP_TYPE_IF_COND, CACAO_STEP_TYPE_SWITCH_COND}
                    => \E h \in AllGateways(c) : h # g /\ UuidOf(k) = NewHash(h.Id)

\* an exclusive gateway with one Outgoing and one transition was passed over
C10_Witness ==
  /\ Done(1)
  /\ \E g \in Range(BpmnProcess(1).ExclusiveGateway) :
       /\ Len(g.Outgoing) = 1
       /\ Cardinality(FlowsFrom(1, g.Id)) = 1
       /\ StepsOf(Workflow(1), g.Id) = {}

\* the two calls converted the same document, one per spec version
VersionPair ==
  /\ Done(1) /\ Done(2)
  /\ doc[1] = doc[2]
  /\ specVersion[1] # specVersion[2]
\* the source-derived uuids of the keys of a step graph
DerivedUuids(workflow) == {UuidOf(k) : k \in DerivedKeys(workflow)}
\* the key of workflow made of the uuid u
KeyOf(workflow, u) == CHOOSE k \in DOMAIN workflow : UuidOf(k) = u
\* successor s1 held in w1 and successor s2 held in w2 are the same reference
\* under the key mapping: both empty, both synthesized End steps, or both of
\* the same derived uuid; and both name a step or neither does
SameReference(w1, s1, w2, s2) ==
  /\ (s1 = <<>>) <=> (s2 = <<>>)
  /\ IsSynthesized(s1) <=> IsSynthesized(s2)
  /\ (s1 # <<>> /\ ~IsSynthesized(s1)) => UuidOf(s1) = UuidOf(s2)
  /\ (s1 \in DOMAIN w1) <=> (s2 \in DOMAIN w2)
SameReferences(w1, st1, w2, st2) ==
  /\ SameReference(w1, st1.OnCompletion, w2, st2.OnCompletion)
  /\ SameReference(w1, st1.OnTrue, w2, st2.OnTrue)
  /\ SameReference(w1, st1.OnFalse, w2, st2.OnFalse)
  /\ Len(st1.NextSteps) = Len(st2.NextSteps)
  /\ \A i \in DOMAIN st1.NextSteps :
       SameReference(w1, st1.NextSteps[i], w2, st2.NextSteps[i])
  /\ DOMAIN st1.Cases = DOMAIN st2.Cases
  /\ \A name \in DOMAIN st1.Cases :
       name \notin AmbiguousNames(1) =>
         SameReference(w1, st1.Cases[name][1], w2, st2.Cases[name][1])

(***************************************************************************)
(* C11  Version invariance: the playbooks of one document under 1.1 and    *)
(* under 2.0 have the same derived uuids, one Workflow key per uuid, and   *)
(* under that mapping of keys the successor references coincide, the       *)
(* declared start is a step of both or of neither, the synthesized End     *)
(* steps are as many and the variable tables are equal.  The code breaks   *)
(* it: under 2.0 a promoted catch event is declared start--<uuid> and      *)
(* stored action--<uuid>, and an inclusive gateway is referenced as        *)
(* parallel--<uuid> and stored if-condition--<uuid>; under 1.1 every       *)
(* prefix is step and the same references name a step.                     *)
(***************************************************************************)
C11_VersionInvariance ==
  VersionPair =>
    /\ DerivedUuids(Workflow(1)) = DerivedUuids(Workflow(2))
    /\ \A c \in Calls :
         Cardinality(DerivedKeys(Workflow(c))) = Cardinality(DerivedUuids(Workflow(c)))
    /\ \A u \in DerivedUuids(Workflow(1)) \cap DerivedUuids(Workflow(2)) :
         SameReferences(Workflow(1), Workflow(1)[KeyOf(Workflow(1), u)],
                        Workflow(2), Workflow(2)[KeyOf(Workflow(2), u)])
    /\ (Playbook(1).WorkflowStart \in DOMAIN Workflow(1))
         <=> (Playbook(2).WorkflowStart \in DOMAIN Workflow(2))
    /\ UuidOf(Playbook(1).WorkflowStart) = UuidOf(Playbook(2).WorkflowStart)
    /\ Cardinality(SynthesizedKeys(Workflow(1))) = Cardinality(SynthesizedKeys(Workflow(2)))
    /\ Playbook(1).PlaybookVariables = Playbook(2).PlaybookVariables

OneProcess(c) == Len(doc[c].Processes) = 1
Returned(c) == Done(c) /\ returned[c].playbook # <<>> /\ returned[c].err = <<>>

\* the steps call c has yet to take: the rest of the transition loop, of
\* the lowering loops, and the single steps between and after them
Remaining(c) ==
  LET flows == Len(BpmnProcess(c).SequenceFlow)
      items == Len(Items(c))
  IN CASE pc[c] = "validate" -> flows + items + 5
       [] pc[c] = "classify" -> flows + items + 4
       [] pc[c] = "transitions" -> (flows + 1 - pos[c]) + items + 3
       [] pc[c] = "start" -> items + 2
       [] pc[c] = "lower" -> (items + 1 - pos[c]) + 1
       [] OTHER -> 0

(***************************************************************************)
(* C12  Termination without failure: a call on a document with exactly one *)
(* process never fails; until it is done it always has a next step; every  *)
(* step it takes lowers by one the number of steps it has yet to take, a   *)
(* number fixed by the lengths of the transition list and of the node      *)
(* lists; it comes to done only from the lowering loops, which it enters   *)
(* only after the whole transition list is indexed; and done, it has       *)
(* returned a playbook and a nil error.                                    *)
(***************************************************************************)
C12_Termination ==
  /\ [](\A c \in Calls : (OneProcess(c) /\ pc[c] # "idle") =>
          /\ pc[c] # "failed"
          /\ Done(c) \/ ENABLED Step(c)
          /\ Done(c) => Returned(c)
          /\ Remaining(c) \in Nat /\ (Remaining(c) = 0 <=> Done(c)))
  /\ [][\A c \in Calls : (OneProcess(c) /\ pc[c] \notin {"idle", "done"}) =>
          /\ Step(c) => Remaining(c)' + 1 = Remaining(c)
          /\ (pc[c]' = "done") => pc[c] = "lower"
          /\ (pc[c]' = "start") =>
               (pc[c] = "transitions" /\ pos[c] > Len(BpmnProcess(c).SequenceFlow))]_vars

\* a call returned a playbook for a process with a dangling reference, a
\* gateway without Outgoing, labeled transitions, and unlabeled ones for
\* which the probe loop went past discriminator 0
C12_Witness ==
  /\ Returned(1)
  /\ \E i \in DOMAIN BpmnProcess(1).SequenceFlow :
       BpmnProcess(1).SequenceFlow[i].TargetRef = X
  /\ \E i \in DOMAIN BpmnProcess(1).SequenceFlow :
       BpmnProcess(1).SequenceFlow[i].Name # <<>>
  /\ \E g \in AllGateways(1) : Len(g.Outgoing) = 0
  /\ FlowKeyN(G1, 2) \in DOMAIN nextStepMap[1]

\* every id of a node of process p
NodeIds(p) ==
  {n.Id : n \in Range(p.StartEvent) \cup Range(p.IntermediateCatchEvent)
            \cup Range(p.ServiceTask) \cup Range(p.UserTask) \cup Range(p.ManualTask)
            \cup Range(p.ScriptTask) \cup Range(p.SendTask) \cup Range(p.Task)
            \cup Range(p.IntermediateThrowEvent) \cup Range(p.EndEvent)
            \cup Range(p.ExclusiveGateway) \cup Range(p.ParallelGateway)
            \cup Range(p.InclusiveGateway)}
\* what call c holds is made of its own document
OwnEntries(c) ==
  LET p == BpmnProcess(c)
      workflow == cacaoPlaybook[c].Workflow
  IN /\ DOMAIN stepMap[c] \subseteq NodeIds(p)
     /\ \A id \in DOMAIN stepMap[c] : UuidOf(stepMap[c][id]) = NewHash(id)
     /\ \A key \in DOMAIN nextStepMap[c] :
          \E f \in Range(p.SequenceFlow) :
             /\ HasPrefix(key, f.SourceRef \o <<":">>)
             /\ nextStepMap[c][key] = f.TargetRef
     /\ \A name \in DOMAIN cacaoPlaybook[c].PlaybookVariables :
          \E g \in Range(p.ExclusiveGateway) \cup Range(p.InclusiveGateway) :
             name = GatewayCondition(g)
     /\ \A k \in DerivedKeys(workflow) : \E id \in NodeIds(p) : UuidOf(k) = NewHash(id)
     /\ \A k \in DOMAIN workflow :
          \A s \in Successors(workflow[k]) \ {<<>>} :
             \/ s \in SynthesizedKeys(workflow)
             \/ \E id \in NodeIds(p) : UuidOf(s) = NewHash(id)

\* a renaming of the ids of synthesized End steps
Rename(f, stepId) == IF stepId \in DOMAIN f THEN f[stepId] ELSE stepId
RenameStep(f, step) ==
  [step EXCEPT !.OnCompletion = Rename(f, @), !.OnTrue = Rename(f, @),
               !.OnFalse = Rename(f, @),
               !.NextSteps = [i \in DOMAIN @ |-> Rename(f, @[i])],
               !.Cases = [name \in DOMAIN @ |->
                            [i \in DOMAIN @[name] |-> Rename(f, @[name][i])]]]
RenameWorkflow(f, workflow) ==
  [k \in {Rename(f, k0) : k0 \in DOMAIN workflow} |->
     RenameStep(f, workflow[CHOOSE k0 \in DOMAIN workflow : Rename(f, k0) = k])]
\* playbooks p and q are equal up to the ids of synthesized End steps
EqualUpToFreshIds(p, q) ==
  \E f \in [SynthesizedKeys(p.Workflow) -> SynthesizedKeys(q.Workflow)] :
     /\ \A k1, k2 \in DOMAIN f : f[k1] = f[k2] => k1 = k2
     /\ [p EXCEPT !.Workflow = RenameWorkflow(f, @)] = q

(***************************************************************************)
(* C13  Independence of conversions: while two calls on two documents are  *)
(* interleaved in any order, the step-id index, the transition index, the  *)
(* variable table and the Workflow of each call hold only entries made of  *)
(* its own document, and the playbook a call returns is, up to the ids of  *)
(* its synthesized End steps, a playbook the same call returns when run    *)
(* alone.                                                                  *)
(***************************************************************************)
C13_Independence ==
  \A c \in Calls : OneProcess(c) =>
    /\ OwnEntries(c)
    /\ Done(c) =>
         \E alone \in ConvertToCacao(doc[c], specVersion[c]) :
            EqualUpToFreshIds(Playbook(c), alone)

\* two documents that share no id were converted with their steps
\* interleaved: the random source served call 1, then call 2, then call 1
C13_Witness ==
  /\ Done(1) /\ Done(2)
  /\ NodeIds(BpmnProcess(1)) \cap NodeIds(BpmnProcess(2)) = {}
  /\ \E k \in SynthesizedKeys(Workflow(1)) : UuidOf(k) = NewRandom(0)
  /\ \E k \in SynthesizedKeys(Workflow(2)) : UuidOf(k) = NewRandom(1)
  /\ \E k \in SynthesizedKeys(Workflow(1)) : UuidOf(k) = NewRandom(2)

\* how many transitions call c has put into the transition index
Indexed(c) ==
  IF pc[c] \in {"idle", "validate", "classify", "failed"} THEN 0
  ELSE IF pc[c] = "transitions" THEN pos[c] - 1
  ELSE Len(BpmnProcess(c).SequenceFlow)

(***************************************************************************)
(* C14  Transition indexer: no transition's entry is overwritten by a      *)
(* later one, so the transition index holds one entry per transition       *)
(* indexed so far, and one per transition of the process once the loop is  *)
(* over.  The code breaks it: a label is the key whatever the index holds, *)
(* so a second transition with an equal label, or one equal up to letter   *)
(* case, takes the entry of the first, and the label "0" takes the entry   *)
(* the probe loop gave to an unlabeled transition.                         *)
(***************************************************************************)
C14_NoOverwrite ==
  \A c \in Calls : OneProcess(c) =>
    Cardinality(DOMAIN nextStepMap[c]) = Indexed(c)

\* the ids of the nodes of call c's process for which a step is emitted
EmittedIds(c) ==
  {n.Id : n \in Range(BpmnProcess(c).StartEvent)}
  \cup {it.node.Id : it \in {i \in Range(Items(c)) :
          i.op # "gateway" \/ i.parallel \/ Len(i.node.Outgoing) >= 2}}
\* the ids that are the target of some transition
TargetIds(c) == {f.TargetRef : f \in Range(BpmnProcess(c).SequenceFlow)}
\* call c is past the index phase: the playbook exists and steps go into it
Lowering(c) == pc[c] \in {"start", "lower", "done"}

(***************************************************************************)
(* C15  Index completeness before lowering: from the moment the playbook   *)
(* exists, before the first step goes into Workflow, the step-id index has *)
(* an entry for every node that is the target of some transition and for   *)
(* which a step is emitted, and both indices stay what the index phase     *)
(* made them.  The code breaks it: the intermediate-catch-event promoted   *)
(* to declared start gets no entry in the step-id index, while ProcessTask *)
(* emits its step.                                                         *)
(***************************************************************************)
C15_IndexComplete ==
  \A c \in Calls : (OneProcess(c) /\ Lowering(c)) =>
    /\ (pc[c] = "start" => cacaoPlaybook[c].Workflow = EmptyMap)
    /\ TargetIds(c) \cap EmittedIds(c) \subseteq DOMAIN stepMap[c]
    /\ stepMap[c] = Classify(BpmnProcess(c), specVersion[c]).stepMap
    /\ nextStepMap[c] = IndexAll(EmptyMap, BpmnProcess(c).SequenceFlow)

(***************************************************************************)
(* C16  Consistent id derivation: for every node that has an entry in the  *)
(* step-id index and for which a step is emitted, the one key of Workflow  *)
(* made of the node's uuid is the node's entry in the step-id index.  The  *)
(* code breaks it under 2.0 for an inclusive gateway: its entry is         *)
(* parallel--<uuid>, and ProcessGateway, called with parallel false,       *)
(* stores the step under if-condition--<uuid> or switch-condition--<uuid>. *)
(***************************************************************************)
C16_ConsistentIds ==
  \A c \in Calls : Done(c) =>
    \A id \in DOMAIN stepMap[c] \cap EmittedIds(c) :
      StepsOf(Workflow(c), id) = {stepMap[c][id]}

\* the document d with its inclusive gateways listed as parallel gateways
AsParallel(d) ==
  [d EXCEPT !.Processes[1] =
     [@ EXCEPT !.ParallelGateway = @ \o d.Processes[1].InclusiveGateway,
               !.InclusiveGateway = <<>>]]

(***************************************************************************)
(* C17  Inclusive gateways are lowered as parallel gateways: the step      *)
(* ConvertToCacao emits for a gateway listed as inclusive is the step it   *)
(* emits, for the same document, when the gateway is listed as parallel:   *)
(* same key, Type parallel, same next_steps, and no condition variable of  *)
(* the gateway in the variable table.  The code breaks it: the loop over   *)
(* InclusiveGateway calls ProcessGateway with parallel false, which        *)
(* registers the variable and emits an if-condition step, a                *)
(* switch-condition step or none.                                          *)
(***************************************************************************)
C17_InclusiveAsParallel ==
  \A c \in Calls : Done(c) =>
    \A g \in Range(BpmnProcess(c).InclusiveGateway) :
      /\ GatewayCondition(g) \notin DOMAIN Playbook(c).PlaybookVariables
      /\ \A listed \in ConvertToCacao(AsParallel(doc[c]), specVersion[c]) :
           /\ StepsOf(Workflow(c), g.Id) = StepsOf(listed.Workflow, g.Id)
           /\ \A k \in StepsOf(Workflow(c), g.Id) :
                /\ Workflow(c)[k] = listed.Workflow[k]
                /\ Workflow(c)[k].Type = CACAO_STEP_TYPE_PARALLEL

\* the linear nodes of call c's process: the start marker and every node
\* given to ProcessTask
LinearNodes(c) == Range(BpmnProcess(c).StartEvent) \cup TaskNodes(c)
LinearTypes ==
  {CACAO_STEP_TYPE_START, CACAO_STEP_TYPE_ACTION, CACAO_STEP_TYPE_11_SINGLE}
\* the successor of node n through discriminator 0 and the step-id index
LinearSuccessor(c, n) == Get(stepMap[c], Get(nextStepMap[c], FlowKeyN(n.Id, 0)))

(***************************************************************************)
(* C18  Uniform dangling-edge repair for linear steps: the step of the     *)
(* start marker and of every node given to ProcessTask has on_completion   *)
(* the successor resolved through discriminator 0 and the step-id index,   *)
(* or, when there is none, a synthesized End step of Workflow; so every    *)
(* start and action step has a non-empty on_completion.  The code breaks   *)
(* it: the start marker's step takes the lookup's result as it is.         *)
(***************************************************************************)
C18_LinearRepair ==
  \A c \in Calls : Done(c) =>
    /\ \A n \in LinearNodes(c) : \A k \in StepsOf(Workflow(c), n.Id) :
         BranchPopulated(c, Workflow(c)[k].OnCompletion, LinearSuccessor(c, n))
    /\ \A k \in DOMAIN Workflow(c) :
         Workflow(c)[k].Type \in LinearTypes => Workflow(c)[k].OnCompletion # <<>>

ConditionTypes == {CACAO_STEP_TYPE_IF_COND, CACAO_STEP_TYPE_SWITCH_COND}
\* the variables the condition steps of a step graph read
ConditionVariables(workflow) ==
  UNION {Range(workflow[k].InArgs) :
           k \in {j \in DOMAIN workflow : workflow[j].Type \in ConditionTypes}}

(***************************************************************************)
(* C19  Skipped gateway leaves the output unchanged: every entry of        *)
(* PlaybookVariables of a returned playbook is the condition variable of   *)
(* an if-condition or switch-condition step of its Workflow.  The code     *)
(* breaks it: ProcessGateway registers the variable before it looks at the *)
(* number of Outgoing, so a gateway with fewer than two, for which no step *)
(* is stored, leaves its variable in the table.                            *)
(***************************************************************************)
C19_SkippedGatewayFrame ==
  \A c \in Calls : Done(c) =>
    DOMAIN Playbook(c).PlaybookVariables \subseteq ConditionVariables(Workflow(c))

(***************************************************************************)
(* C20  Linear successor preservation: a node given to ProcessTask that is *)
(* the source of exactly one transition, labeled or not, whose target has  *)
(* an entry in the step-id index, yields one step whose on_completion is   *)
(* that entry, not a synthesized End step.  The code breaks it: the        *)
(* successor is looked up under discriminator 0 alone, and a labeled       *)
(* transition is indexed under its upper-cased label.                      *)
(***************************************************************************)
C20_LinearSuccessor ==
  \A c \in Calls : Done(c) =>
    \A t \in TaskNodes(c) : Cardinality(FlowsFrom(c, t.Id)) = 1 =>
      \A i \in FlowsFrom(c, t.Id) :
        LET target == BpmnProcess(c).SequenceFlow[i].TargetRef
        IN target \in DOMAIN stepMap[c] =>
             /\ Cardinality(StepsOf(Workflow(c), t.Id)) = 1
             /\ \A k \in StepsOf(Workflow(c), t.Id) :
                  Workflow(c)[k].OnCompletion = stepMap[c][target]

====
